---- MODULE Spec2Model ----
(***************************************************************************)
(* A model of the terminal text editor of src/editor.cpp, src/editor.hpp:  *)
(* the Buffer (lines, file path, modified flag), its file load and save,   *)
(* the Editor's run loop with its Insert/Command input modes, and the      *)
(* SyntaxHighlighter, FileExplorer, Terminal raw mode and PluginManager,   *)
(* each also run on its own in a specification of its operations.          *)
(*                                                                         *)
(* std::string is a TLA+ string, a char is a one-character string, a key   *)
(* read from the terminal is its byte value.  Rows and columns are the     *)
(* 0-based ints of the code; a sequence's element i of the code is element *)
(* i + 1 here.                                                             *)
(***************************************************************************)
EXTENDS Integers, Sequences, FiniteSets, TLC

\* ------------------------------------------------------------- bounds

\* The most characters one buffer's lines hold together before a character
\* is inserted.
MaxChars == 2
\* The most lines of one buffer before a line is inserted.
MaxLines == 3
\* The most buffers before a file is opened.
MaxBuffers == 2

\* ------------------------------------------------------- std::string

Min(a, b) == IF a < b THEN a ELSE b

\* s.size() <= pos is the caller's to know: s.substr(pos) for pos <= size.
Substr(s, pos) == SubSeq(s, pos + 1, Len(s))

\* s.substr(pos, n) for pos <= size: at most n characters from pos.
SubstrN(s, pos, n) == SubSeq(s, pos + 1, Min(pos + n, Len(s)))

\* s.insert(col, 1, ch) for col <= size.
StrInsert(s, col, ch) == SubSeq(s, 1, col) \o ch \o SubSeq(s, col + 1, Len(s))

\* s.erase(pos, 1) for pos <= size: nothing is erased at pos = size.
StrErase(s, pos) == SubSeq(s, 1, pos) \o SubSeq(s, pos + 2, Len(s))

\* ------------------------------------------------------- file system

\* What a path names: no file, or a file and its text.
NoFile == [exists |-> FALSE, text |-> ""]

File(text) == [exists |-> TRUE, text |-> text]

\* The paths that can name a file; the empty path never does.
Paths == {"f"}

\* std::ifstream file(path); file.is_open()
CanOpenRead(files, path) == path \in Paths /\ files[path].exists

\* std::ofstream file(path): creates or truncates; fails on the empty path.
CanOpenWrite(files, path) == path \in Paths

\* The index of the first '\n' of s, 0 when it has none.
RECURSIVE NewlineAt(_, _)
NewlineAt(s, i) ==
    IF i > Len(s) THEN 0
    ELSE IF SubSeq(s, i, i) = "\n" THEN i
    ELSE NewlineAt(s, i + 1)

\* while (std::getline(file, line)) lines.push_back(line): the records of
\* text, each ended by '\n' or by the end of the file; a read at the end of
\* the file extracts nothing and fails.
RECURSIVE GetLines(_)
GetLines(text) ==
    IF text = "" THEN << >>
    ELSE LET i == NewlineAt(text, 1)
         IN  IF i = 0 THEN <<text>>
             ELSE <<SubSeq(text, 1, i - 1)>> \o GetLines(SubSeq(text, i + 1, Len(text)))

\* for (line : lines) file << line << '\n'
RECURSIVE WriteLines(_)
WriteLines(lines) ==
    IF lines = << >> THEN ""
    ELSE Head(lines) \o "\n" \o WriteLines(Tail(lines))

\* ------------------------------------------------------------ Buffer

RECURSIVE CharCount(_)
CharCount(lines) ==
    IF lines = << >> THEN 0 ELSE Len(Head(lines)) + CharCount(Tail(lines))

\* Buffer(): one empty line, no path, unmodified.
NewBuffer == [lines |-> <<"">>, filepath |-> "", modified |-> FALSE]

\* A buffer after a call, and how the call ended: "ok", it returned;
\* "out_of_range", it threw std::out_of_range; "undefined", its behaviour was
\* undefined, which either ends the process ("crash") or goes on after an
\* access outside the vector's elements ("corrupt").
Result(b, how) == [buf |-> b, how |-> how]

\* Buffer::insertChar.  `row >= lines.size()` compares as unsigned, so a
\* negative row is out of range too; std::string::insert throws
\* std::out_of_range for col > size (a negative col converts to a huge one).
BufferInsertChar(b, row, col, ch) ==
    IF row < 0 \/ row >= Len(b.lines) THEN Result(b, "ok")
    ELSE IF col < 0 \/ col > Len(b.lines[row + 1]) THEN Result(b, "out_of_range")
    ELSE Result([b EXCEPT !.lines[row + 1] = StrInsert(@, col, ch),
                          !.modified = TRUE], "ok")

\* deleteChar erasing the character at col, not the one before it.
BufferDeleteChar_AtCol(b, row, col) ==
    IF row < 0 \/ row >= Len(b.lines) \/ col = 0 THEN Result(b, "ok")
    ELSE IF col < 0 \/ col > Len(b.lines[row + 1]) THEN Result(b, "out_of_range")
    ELSE Result([b EXCEPT !.lines[row + 1] = StrErase(@, col),
                          !.modified = TRUE], "ok")

\* Buffer::deleteChar.  std::string::erase throws std::out_of_range for
\* col - 1 > size, erases nothing at col - 1 = size, and the flag is set
\* whenever it returns.
BufferDeleteChar(b, row, col) ==
    IF row < 0 \/ row >= Len(b.lines) \/ col = 0 THEN Result(b, "ok")
    ELSE IF col < 0 \/ col - 1 > Len(b.lines[row + 1]) THEN Result(b, "out_of_range")
    ELSE Result([b EXCEPT !.lines[row + 1] = StrErase(@, col - 1),
                          !.modified = TRUE], "ok")

\* lines.insert(lines.begin() + row + 1, "") for -1 <= row < size.
InsertAfter(lines, row) ==
    SubSeq(lines, 1, row + 1) \o <<"">> \o SubSeq(lines, row + 2, Len(lines))

\* lines.erase(lines.begin() + row) for 0 <= row < size.
EraseAt(lines, row) ==
    SubSeq(lines, 1, row) \o SubSeq(lines, row + 2, Len(lines))

\* Buffer::insertLine.  `row > lines.size()` compares as unsigned: every
\* negative row returns.  row = size passes the test and inserts at
\* begin() + size + 1, past the end: undefined behaviour.
BufferInsertLine(b, row) ==
    IF row < 0 \/ row > Len(b.lines) THEN Result(b, "ok")
    ELSE IF row = Len(b.lines) THEN Result(b, "undefined")
    ELSE Result([b EXCEPT !.lines = InsertAfter(@, row), !.modified = TRUE], "ok")

\* What insertLine(size) can leave: the process ends, or (no element is moved,
\* the new string is written outside the elements) one more line, a copy of
\* the last.
InsertLineUndefined(b) ==
    {Result(b, "crash"),
     Result([b EXCEPT !.lines = Append(@, @[Len(@)]), !.modified = TRUE], "corrupt")}

\* deleteLine without its test of the size: the only line can be erased.
BufferDeleteLine_NoSizeTest(b, row) ==
    IF row < 0 \/ row >= Len(b.lines) THEN Result(b, "undefined")
    ELSE Result([b EXCEPT !.lines = EraseAt(@, row), !.modified = TRUE], "ok")

\* Buffer::deleteLine.  Only the size is tested: a row outside the lines of a
\* buffer of two or more lines erases at an iterator outside the elements,
\* undefined behaviour.
BufferDeleteLine(b, row) ==
    IF Len(b.lines) <= 1 THEN Result(b, "ok")
    ELSE IF row < 0 \/ row >= Len(b.lines) THEN Result(b, "undefined")
    ELSE Result([b EXCEPT !.lines = EraseAt(@, row), !.modified = TRUE], "ok")

\* What deleteLine outside the lines can leave: the process ends, or (no
\* element is moved, the last one is destroyed) the last line is gone.
DeleteLineUndefined(b) ==
    {Result(b, "crash"),
     Result([b EXCEPT !.lines = SubSeq(@, 1, Len(@) - 1), !.modified = TRUE],
            "corrupt")}

\* Buffer::getLine: a copy of the line, "" for a row out of range.
BufferGetLine(b, row) ==
    IF row < 0 \/ row >= Len(b.lines) THEN "" ELSE b.lines[row + 1]

\* Buffer::load: the lines of the file, one empty line when it cannot be
\* opened or holds no record.  The modified flag is not touched.
BufferLoad(b, files) ==
    IF ~CanOpenRead(files, b.filepath) THEN [b EXCEPT !.lines = <<"">>]
    ELSE LET read == GetLines(files[b.filepath].text)
         IN  [b EXCEPT !.lines = IF read = << >> THEN <<"">> ELSE read]

\* The constructor without its initializer of filepath.
BufferOpen_NoPath(path, files) ==
    BufferLoad([lines |-> << >>, filepath |-> "", modified |-> FALSE], files)

\* Buffer::Buffer(path): the path, then load().
BufferOpen(path, files) ==
    BufferLoad([lines |-> << >>, filepath |-> path, modified |-> FALSE], files)

\* save clearing the flag only when the file could be opened.
BufferSave_IfWritable(b) ==
    IF b.filepath \in Paths THEN [b EXCEPT !.modified = FALSE] ELSE b

\* Buffer::save, the buffer afterwards: the flag is cleared whether or not
\* the file could be opened.
BufferSave(b) == [b EXCEPT !.modified = FALSE]

\* Buffer::save, the files afterwards.
FilesAfterSave(b, files) ==
    IF CanOpenWrite(files, b.filepath)
    THEN [files EXCEPT ![b.filepath] = File(WriteLines(b.lines))]
    ELSE files

\* -------------------------------------------------------------- keys

CR == 13
ESC == 27
DEL == 127
COLON == 58
\* The first and the last printable byte.
SPACE == 32
TILDE == 126
\* What `key` holds when read() returned no byte.
NoKey == -1

\* The char of a byte, for the bytes the model types.
Chr(k) ==
    CASE k = 9 -> "\t"
      [] k = 32 -> " "
      [] k = 33 -> "!"
      [] k = 58 -> ":"
      [] k = 97 -> "a"
      [] k = 98 -> "b"
      [] k = 101 -> "e"
      [] k = 102 -> "f"
      [] k = 108 -> "l"
      [] k = 111 -> "o"
      [] k = 112 -> "p"
      [] k = 113 -> "q"
      [] k = 114 -> "r"
      [] k = 119 -> "w"
      [] k = 120 -> "x"

\* The bytes typed as text.
TextKeys == {120}

\* The bytes typed into a command.
CommandChars == {32, 33, 101, 102, 108, 111, 112, 113, 114, 119, 120}

\* The commands typed in one run of the editor: the file commands, or the
\* explorer's and a command the editor does not know.
Vocabularies == {{"q", "w", "wq", "e f"}, {"explorer", "q!"}}

Prefixes(s) == {SubSeq(s, 1, n) : n \in 0..Len(s)}

\* What is typed on the way to the commands of a vocabulary.
TypedPrefixes(commands) == UNION {Prefixes(cmd) : cmd \in commands}

\* ------------------------------------------------------------ Editor

\* One call made while a key is handled.
Call(name, k, text) == [call |-> name, key |-> k, text |-> text]

\* The editor, the files and the calls made so far while a key is handled;
\* how is "ok" until a call throws or its behaviour is undefined.
Machine(e, files) == [ed |-> e, fs |-> files, trace |-> << >>, how |-> "ok"]

Log(m, name, k, text) == [m EXCEPT !.trace = Append(@, Call(name, k, text))]

\* Editor::getCurrentBuffer
GetCurrentBuffer(e) == e.buffers[e.currentBuffer + 1]

SetCurrentBuffer(e, b) == [e EXCEPT !.buffers[e.currentBuffer + 1] = b]

\* PluginManager::notifyKeyPress: the editor never loads a plugin, so the loop
\* over its plugins has nothing to call.
NotifyKeyPress(m, k) == Log(m, "notifyKeyPress", k, "")

\* PluginManager::notifyBufferChange
NotifyBufferChange(m) == Log(m, "notifyBufferChange", NoKey, "")

\* Editor::insertChar
EditorInsertChar(m, ch) ==
    LET r == BufferInsertChar(GetCurrentBuffer(m.ed), m.ed.cursorRow, m.ed.cursorCol, ch)
        m1 == Log(m, "Buffer::insertChar", NoKey, ch)
    IN  IF r.how # "ok" THEN [m1 EXCEPT !.how = r.how]
        ELSE NotifyBufferChange(
                 [m1 EXCEPT !.ed = [SetCurrentBuffer(m.ed, r.buf)
                                        EXCEPT !.cursorCol = @ + 1]])

\* deleteChar notifying also when the cursor is at column 0.
EditorDeleteChar_AlwaysNotifies(m) ==
    IF m.ed.cursorCol > 0
    THEN LET r == BufferDeleteChar(GetCurrentBuffer(m.ed), m.ed.cursorRow, m.ed.cursorCol)
             m1 == Log(m, "Buffer::deleteChar", NoKey, "")
         IN  IF r.how # "ok" THEN [m1 EXCEPT !.how = r.how]
             ELSE NotifyBufferChange(
                      [m1 EXCEPT !.ed = [SetCurrentBuffer(m.ed, r.buf)
                                             EXCEPT !.cursorCol = @ - 1]])
    ELSE NotifyBufferChange(m)

\* Editor::deleteChar
EditorDeleteChar(m) ==
    IF m.ed.cursorCol > 0
    THEN LET r == BufferDeleteChar(GetCurrentBuffer(m.ed), m.ed.cursorRow, m.ed.cursorCol)
             m1 == Log(m, "Buffer::deleteChar", NoKey, "")
         IN  IF r.how # "ok" THEN [m1 EXCEPT !.how = r.how]
             ELSE NotifyBufferChange(
                      [m1 EXCEPT !.ed = [SetCurrentBuffer(m.ed, r.buf)
                                             EXCEPT !.cursorCol = @ - 1]])
    ELSE m

\* Editor::newLine.  getLine returns the line by value, so `line` names a
\* copy: `rest` and the shortened `line` are computed (substr throws
\* std::out_of_range for a column past the end) and dropped, and the buffer
\* only gains the empty line of insertLine.
EditorNewLine(m) ==
    LET line == BufferGetLine(GetCurrentBuffer(m.ed), m.ed.cursorRow)
        r == BufferInsertLine(GetCurrentBuffer(m.ed), m.ed.cursorRow)
        m1 == Log(m, "Buffer::insertLine", NoKey, "")
    IN  IF m.ed.cursorCol < 0 \/ m.ed.cursorCol > Len(line)
        THEN [m EXCEPT !.how = "out_of_range"]
        ELSE IF r.how # "ok" THEN [m1 EXCEPT !.how = r.how]
        ELSE NotifyBufferChange(
                 [m1 EXCEPT !.ed = [SetCurrentBuffer(m.ed, r.buf)
                                        EXCEPT !.cursorRow = @ + 1,
                                               !.cursorCol = 0]])

\* quit without its test of the modified flag.
Quit_Always(m) == [m EXCEPT !.ed.running = FALSE]

\* quit with its test of the modified flag inverted.
Quit_WhenModified(m) ==
    IF ~GetCurrentBuffer(m.ed).modified
    THEN [m EXCEPT !.ed.statusMessage = "Unsaved changes! Use :q! to force quit"]
    ELSE [m EXCEPT !.ed.running = FALSE]

\* Editor::quit
Quit(m) ==
    IF GetCurrentBuffer(m.ed).modified
    THEN [m EXCEPT !.ed.statusMessage = "Unsaved changes! Use :q! to force quit"]
    ELSE [m EXCEPT !.ed.running = FALSE]

\* Editor::saveFile
SaveFile(m) ==
    [m EXCEPT !.fs = FilesAfterSave(GetCurrentBuffer(m.ed), m.fs),
              !.ed = [SetCurrentBuffer(m.ed, BufferSave(GetCurrentBuffer(m.ed)))
                          EXCEPT !.statusMessage = "File saved"]]

\* openFile without its reset of the cursor.
OpenFile_KeepsCursor(m, filepath) ==
    [m EXCEPT !.ed.buffers = Append(@, BufferOpen(filepath, m.fs)),
              !.ed.currentBuffer = Len(m.ed.buffers)]

\* openFile loading the file into the current buffer's place.
OpenFile_ReplacesCurrent(m, filepath) ==
    [m EXCEPT !.ed.buffers[m.ed.currentBuffer + 1] = BufferOpen(filepath, m.fs),
              !.ed.cursorRow = 0,
              !.ed.cursorCol = 0]

\* Editor::openFile
OpenFile(m, filepath) ==
    [m EXCEPT !.ed.buffers = Append(@, BufferOpen(filepath, m.fs)),
              !.ed.currentBuffer = Len(m.ed.buffers),
              !.ed.cursorRow = 0,
              !.ed.cursorCol = 0]

\* FileExplorer::scanDirectory("."): the names of the directory's entries, none
\* when the directory cannot be read.
ScanDirectory(files, dirOk) ==
    IF dirOk /\ files["f"].exists THEN <<"f">> ELSE << >>

\* The last branch taking `q!` as the forced quit its message speaks of.
UnknownCommand_ForceQuit(m, cmd) ==
    IF cmd = "q!" THEN [m EXCEPT !.ed.running = FALSE]
    ELSE [m EXCEPT !.ed.statusMessage = "Unknown command: " \o cmd]

\* Editor::executeCommand, its last branch.
UnknownCommand(m, cmd) ==
    [m EXCEPT !.ed.statusMessage = "Unknown command: " \o cmd]

\* Editor::executeCommand
ExecuteCommand(m, cmd, dirOk) ==
    IF cmd = "q" THEN Quit(m)
    ELSE IF cmd = "w" THEN SaveFile(m)
    ELSE IF cmd = "wq" THEN Quit(SaveFile(m))
    ELSE IF SubstrN(cmd, 0, 2) = "e " THEN OpenFile(m, Substr(cmd, 2))
    ELSE IF cmd = "explorer"
    THEN [m EXCEPT !.ed.showExplorer = ~@,
                   !.ed.fileExplorer.files = ScanDirectory(m.fs, dirOk)]
    ELSE UnknownCommand(m, cmd)

\* Command mode whose ESC leaves the typed text in the command buffer.
CommandKeypress_EscKeepsText(m, k, dirOk) ==
    IF k = CR
    THEN LET m1 == ExecuteCommand(Log(m, "executeCommand", NoKey, m.ed.commandBuffer),
                                  m.ed.commandBuffer, dirOk)
         IN  [m1 EXCEPT !.ed.commandMode = FALSE, !.ed.commandBuffer = ""]
    ELSE IF k = ESC
    THEN [m EXCEPT !.ed.commandMode = FALSE]
    ELSE IF k = DEL
    THEN IF m.ed.commandBuffer # ""
         THEN [m EXCEPT !.ed.commandBuffer = SubSeq(@, 1, Len(@) - 1)]
         ELSE m
    ELSE [m EXCEPT !.ed.commandBuffer = @ \o Chr(k)]

\* Command mode left by a backspace on an empty command buffer.
CommandKeypress_DelLeavesMode(m, k, dirOk) ==
    IF k = CR
    THEN LET m1 == ExecuteCommand(Log(m, "executeCommand", NoKey, m.ed.commandBuffer),
                                  m.ed.commandBuffer, dirOk)
         IN  [m1 EXCEPT !.ed.commandMode = FALSE, !.ed.commandBuffer = ""]
    ELSE IF k = ESC
    THEN [m EXCEPT !.ed.commandMode = FALSE, !.ed.commandBuffer = ""]
    ELSE IF k = DEL
    THEN IF m.ed.commandBuffer # ""
         THEN [m EXCEPT !.ed.commandBuffer = SubSeq(@, 1, Len(@) - 1)]
         ELSE [m EXCEPT !.ed.commandMode = FALSE]
    ELSE [m EXCEPT !.ed.commandBuffer = @ \o Chr(k)]

\* Editor::processKeypress, in command mode.
CommandKeypress(m, k, dirOk) ==
    IF k = CR
    THEN LET m1 == ExecuteCommand(Log(m, "executeCommand", NoKey, m.ed.commandBuffer),
                                  m.ed.commandBuffer, dirOk)
         IN  [m1 EXCEPT !.ed.commandMode = FALSE, !.ed.commandBuffer = ""]
    ELSE IF k = ESC
    THEN [m EXCEPT !.ed.commandMode = FALSE, !.ed.commandBuffer = ""]
    ELSE IF k = DEL
    THEN IF m.ed.commandBuffer # ""
         THEN [m EXCEPT !.ed.commandBuffer = SubSeq(@, 1, Len(@) - 1)]
         ELSE m
    ELSE [m EXCEPT !.ed.commandBuffer = @ \o Chr(k)]

\* Editor::processKeypress, in insert mode.
InsertKeypress(m, k) ==
    LET m1 == NotifyKeyPress(m, k)
    IN  IF k = COLON THEN [m1 EXCEPT !.ed.commandMode = TRUE]
        ELSE IF k = ESC THEN m1
        ELSE IF k = DEL THEN EditorDeleteChar(m1)
        ELSE IF k = CR THEN EditorNewLine(m1)
        ELSE IF k >= SPACE /\ k <= TILDE THEN EditorInsertChar(m1, Chr(k))
        ELSE m1

\* Editor::processKeypress after read() returned the byte k.
ProcessKeypress(m, k, dirOk) ==
    IF m.ed.commandMode THEN CommandKeypress(m, k, dirOk) ELSE InsertKeypress(m, k)

\* Editor::renderCommandLine: what is painted on the last row.
CommandLineText(e) ==
    IF e.commandMode THEN ":" \o e.commandBuffer
    ELSE e.statusMessage

\* render painting the status message without clearing it.
RenderEditor_KeepsMessage(e) == e

\* Editor::render, the editor afterwards: a status message that was painted
\* is cleared.
RenderEditor(e) ==
    IF ~e.commandMode /\ e.statusMessage # ""
    THEN [e EXCEPT !.statusMessage = ""]
    ELSE e

\* Editor::Editor
NewEditor ==
    [buffers |-> <<NewBuffer>>, currentBuffer |-> 0,
     cursorRow |-> 0, cursorCol |-> 0, rowOffset |-> 0, colOffset |-> 0,
     statusMessage |-> "", commandBuffer |-> "",
     commandMode |-> FALSE, running |-> TRUE,
     fileExplorer |-> [files |-> << >>, selectedIndex |-> 0],
     showExplorer |-> FALSE]

\* ------------------------------------------------- SyntaxHighlighter

\* The byte 0x1b that starts an escape sequence is written ^ here.
Color(code) == "^[" \o code \o "m"

\* "\x1b[0m", appended after every match.
ResetColor == Color("0")

\* The characters \w matches; \b is where one of them meets none of them.
WordChars ==
    LET w == "abcdefghijklmnopqrstuvwxyzABCDEFGHIJKLMNOPQRSTUVWXYZ0123456789_"
    IN  {SubSeq(w, i, i) : i \in 1..Len(w)}

\* The characters `.` does not match.
LineTerminators == {"\n", "\r"}

CharAt(s, i) == SubSeq(s, i, i)

\* \b before the character i of s (i = Len(s) + 1: at its end).  The sequence
\* searched is all regex_search knows: outside it there is no word character.
WordBoundary(s, i) ==
    (i > 1 /\ CharAt(s, i - 1) \in WordChars) #
    (i <= Len(s) /\ CharAt(s, i) \in WordChars)

\* A HighlightRule: its pattern, as the kind of the regex and the words of its
\* alternation, and its color.
HighlightRule(kind, words, color) == [kind |-> kind, words |-> words, color |-> color]

\* The lengths of the matches of the rule's pattern that start at character i
\* of s.  \b(w1|w2|...)\b: a word of the alternation between two boundaries.
\* ".*?": from a quote to the next one, no line terminator between.
\* //.*: from two slashes up to the line terminator or the end.
MatchLengths(rule, s, i) ==
    IF rule.kind = "words"
    THEN {Len(rule.words[k]) : k \in {k \in 1..Len(rule.words) :
              /\ i + Len(rule.words[k]) - 1 <= Len(s)
              /\ SubSeq(s, i, i + Len(rule.words[k]) - 1) = rule.words[k]
              /\ WordBoundary(s, i)
              /\ WordBoundary(s, i + Len(rule.words[k]))}}
    ELSE IF rule.kind = "quoted"
    THEN IF CharAt(s, i) # "\"" THEN {}
         ELSE LET closing == {j \in i + 1..Len(s) :
                                  /\ CharAt(s, j) = "\""
                                  /\ \A k \in i + 1..j - 1 :
                                         CharAt(s, k) \notin LineTerminators /\ CharAt(s, k) # "\""}
              IN  {j - i + 1 : j \in closing}
    ELSE IF SubSeq(s, i, Min(i + 1, Len(s))) # "//" THEN {}
         ELSE LET stops == {j \in i + 2..Len(s) : CharAt(s, j) \in LineTerminators}
                  stop == IF stops = {} THEN Len(s) + 1
                          ELSE CHOOSE j \in stops : \A k \in stops : j <= k
              IN  {stop - i}

\* std::regex_search(searchStart, temp.cend(), match, rule.pattern) on the
\* rest s of temp: the leftmost match, as match.position() and match.length().
RegexSearch(rule, s) ==
    LET starts == {i \in 1..Len(s) : MatchLengths(rule, s, i) # {}}
    IN  IF starts = {} THEN [found |-> FALSE, position |-> 0, length |-> 0]
        ELSE LET i == CHOOSE i \in starts : \A j \in starts : i <= j
             IN  [found |-> TRUE, position |-> i - 1,
                  length |-> CHOOSE n \in MatchLengths(rule, s, i) : TRUE]

\* The while loop of highlight for one rule, on the rest s of temp: each match
\* between the rule's color and the reset, what is not matched as it is.
RECURSIVE ApplyRule(_, _)
ApplyRule(rule, s) ==
    LET match == RegexSearch(rule, s)
    IN  IF ~match.found THEN s
        ELSE SubstrN(s, 0, match.position) \o rule.color
             \o SubstrN(s, match.position, match.length) \o ResetColor
             \o ApplyRule(rule, Substr(s, match.position + match.length))

\* SyntaxHighlighter::highlight: each rule, in order, on the result of the
\* rules before it.
RECURSIVE Highlight(_, _)
Highlight(rules, text) ==
    IF rules = << >> THEN text
    ELSE Highlight(Tail(rules), ApplyRule(Head(rules), text))

\* The rules Editor::Editor adds.
EditorRules ==
    <<HighlightRule("words",
                    <<"int", "void", "return", "if", "else", "for", "while", "class">>,
                    Color("34")),
      HighlightRule("quoted", << >>, Color("32")),
      HighlightRule("comment", << >>, Color("90"))>>

\* ------------------------------------------------------ FileExplorer

\* FileExplorer::scanDirectory: files.clear(), then the names the directory
\* iterator yields (none when it throws); selectedIndex is left as it is.
ExplorerScan(x, listing) == [x EXCEPT !.files = listing]

\* FileExplorer::moveSelection.  After the first test selectedIndex is not
\* negative, so the unsigned comparison with files.size() is the signed one;
\* for no files, files.size() - 1 wraps around and converts to the int -1.
MoveSelection(x, delta) ==
    LET moved == x.selectedIndex + delta
        low == IF moved < 0 THEN 0 ELSE moved
    IN  [x EXCEPT !.selectedIndex =
                      IF low >= Len(x.files) THEN Len(x.files) - 1 ELSE low]

\* FileExplorer::getSelected.  `selectedIndex < files.size()` compares as
\* unsigned: a negative index is not below any size.
GetSelected(x) ==
    IF x.selectedIndex >= 0 /\ x.selectedIndex < Len(x.files)
    THEN x.files[x.selectedIndex + 1]
    ELSE ""

\* ---------------------------------------------------------- Terminal

\* The flags of a struct termios that enterRawMode touches.
LFlags == {"ECHO", "ICANON", "ISIG", "IEXTEN"}

IFlags == {"IXON", "ICRNL", "BRKINT", "INPCK", "ISTRIP"}

\* A struct termios: the flags set in each word, and c_cc[VMIN], c_cc[VTIME].
Termios(lflag, iflag, oflag, cflag, vmin, vtime) ==
    [c_lflag |-> lflag, c_iflag |-> iflag, c_oflag |-> oflag, c_cflag |-> cflag,
     vmin |-> vmin, vtime |-> vtime]

\* static struct termios orig_termios: zero-initialized.
ZeroTermios == Termios({}, {}, {}, {}, 0, 0)

\* `raw` of enterRawMode, made from the configuration t.
RawOf(t) ==
    Termios(t.c_lflag \ LFlags, t.c_iflag \ IFlags, t.c_oflag \ {"OPOST"},
            t.c_cflag \cup {"CS8"}, 0, 1)

\* The terminal: the configuration of the device, the static orig_termios,
\* the configuration the device had before raw mode was first entered, and
\* the Editors constructed and not yet destroyed.
Tty(termios, orig, before, editors) ==
    [termios |-> termios, orig_termios |-> orig, before |-> before,
     editors |-> editors]

\* Terminal::enterRawMode: tcgetattr into orig_termios, tcsetattr(raw).
EnterRawMode(t) ==
    [t EXCEPT !.orig_termios = t.termios, !.termios = RawOf(t.termios)]

\* Terminal::exitRawMode: tcsetattr(orig_termios).
ExitRawMode(t) == [t EXCEPT !.termios = t.orig_termios]

\* The terminal of a shell: canonical mode with echo and signals.
SaneTermios ==
    Termios(LFlags, {"IXON", "ICRNL", "BRKINT"}, {"OPOST"}, {"CS8"}, 1, 0)

\* ----------------------------------------------------- PluginManager

\* The most plugins the registry holds.
MaxPlugins == 3

\* The names plugins have, in the order of the std::map's keys.
PluginNames == [i \in 1..MaxPlugins |-> SubSeq("abcdefgh", i, i)]

\* The hooks notifications call.
Hooks == {"onKeyPress", "onBufferChange"}

\* A Plugin: its getName(), and the hooks whose override throws.
Plugin(name, throws) == [name |-> name, throws |-> throws]

\* The keys of the registry, in the order its iteration visits them.
Registered(reg) == SelectSeq(PluginNames, LAMBDA n : \E p \in reg : p.name = n)

PluginNamed(reg, name) == CHOOSE p \in reg : p.name = name

\* PluginManager::loadPlugin: plugins[plugin->getName()] = plugin replaces the
\* plugin the name had.
LoadPlugin(reg, plugin) == {p \in reg : p.name # plugin.name} \cup {plugin}

\* PluginManager::unloadPlugin
UnloadPlugin(reg, name) == {p \in reg : p.name # name}

\* for (auto& [name, plugin] : plugins) plugin->hook(): the plugins whose hook
\* was called, in order, and how the loop ended.  Nothing catches what a hook
\* throws, so the exception leaves the loop and the function.
RECURSIVE CallHooks(_, _, _)
CallHooks(reg, names, hook) ==
    IF names = << >> THEN [called |-> << >>, how |-> "ok"]
    ELSE IF hook \in PluginNamed(reg, Head(names)).throws
    THEN [called |-> <<Head(names)>>, how |-> "exception"]
    ELSE LET rest == CallHooks(reg, Tail(names), hook)
         IN  [called |-> <<Head(names)>> \o rest.called, how |-> rest.how]

\* PluginManager::notifyKeyPress
PluginsNotifyKeyPress(reg) == CallHooks(reg, Registered(reg), "onKeyPress")

\* PluginManager::notifyBufferChange
PluginsNotifyBufferChange(reg) == CallHooks(reg, Registered(reg), "onBufferChange")

\* ------------------------------------------------- the editor's run

VARIABLES
    ed,       \* the Editor's fields
    fs,       \* the file of each path
    pc,       \* Editor::run: "run" in its loop, "done" after it, "failed"
    key,      \* the byte the last read() returned, NoKey when it returned none
    trace,    \* the calls made while the last key was handled, in order
    cmdLine,  \* what the last render pass painted on the command line
    vocabulary, \* the commands this run's user types
    buf,      \* a Buffer used on its own, through its public operations
    op,       \* the last operation called on buf, and whether its row and
              \* column were in range
    outcome,  \* how that call ended: "ok", "out_of_range", "corrupt", "crash"
    ret,      \* what that call returned: a line from getLine, else ""
    plugins,  \* a PluginManager's registry; the Editor's stays empty
    fresh,    \* the Buffer constructed last from buf's path
    tty,      \* the terminal and the static orig_termios
    line      \* the line given last to SyntaxHighlighter::highlight

edvars == <<ed, pc, key, trace, cmdLine, vocabulary>>

bufvars == <<buf, op, outcome, ret>>

\* The components used on their own.
compvars == <<plugins, fresh, tty, line>>

vars == <<edvars, fs, bufvars, compvars>>

\* The file the path "f" names when the editor starts.
InitialFiles == {NoFile, File("a")}

Init ==
    /\ ed = NewEditor
    /\ fs \in [Paths -> InitialFiles]
    /\ pc = "run"
    /\ key = NoKey
    /\ trace = << >>
    /\ cmdLine = ""
    /\ vocabulary \in Vocabularies
    /\ buf = NewBuffer
    /\ op = [name |-> "Buffer", inRange |-> TRUE]
    /\ outcome = "ok"
    /\ ret = ""
    /\ plugins = {}
    /\ fresh = NewBuffer
    /\ tty = EnterRawMode(Tty(SaneTermios, ZeroTermios, SaneTermios, 1))
    /\ line = ""

\* The state after one pass of the loop of Editor::run, render() and then
\* processKeypress() handling k (NoKey: read() returned no byte).  The loop
\* goes on while `running`; an exception nothing catches ends the process.
Pass(m, k) ==
    /\ cmdLine' = CommandLineText(ed)
    /\ ed' = m.ed
    /\ fs' = m.fs
    /\ trace' = m.trace
    /\ key' = k
    /\ pc' = IF m.how # "ok" THEN "failed"
             ELSE IF m.ed.running THEN "run" ELSE "done"
    /\ UNCHANGED <<vocabulary, bufvars, compvars>>

RECURSIVE TotalChars(_)
TotalChars(bufs) ==
    IF bufs = << >> THEN 0 ELSE CharCount(Head(bufs).lines) + TotalChars(Tail(bufs))

RECURSIVE TotalLines(_)
TotalLines(bufs) ==
    IF bufs = << >> THEN 0 ELSE Len(Head(bufs).lines) + TotalLines(Tail(bufs))

\* The keys typed in insert mode: text and Enter while the buffers have room,
\* and a byte (9, a tab) that is neither printable nor a key the editor knows.
InsertKeys ==
    {k \in TextKeys : TotalChars(ed.buffers) < MaxChars}
    \cup {k \in {CR} : TotalLines(ed.buffers) < MaxLines}
    \cup {COLON, ESC, DEL, 9}

\* The keys typed in command mode: the next character of a command, or the
\* end of it; `e <path>` is entered while the buffers have room for the file.
CommandKeys ==
    {k \in CommandChars : ed.commandBuffer \o Chr(k) \in TypedPrefixes(vocabulary)}
    \cup {k \in {CR} :
            SubstrN(ed.commandBuffer, 0, 2) = "e "
            => LET b == BufferOpen(Substr(ed.commandBuffer, 2), fs)
               IN  /\ Len(ed.buffers) < MaxBuffers
                   /\ TotalLines(ed.buffers) + Len(b.lines) <= MaxLines
                   /\ TotalChars(ed.buffers) + CharCount(b.lines) <= MaxChars}
    \cup {ESC, DEL}

\* A pass in which read() returns no byte within its timeout.
ReadNothing ==
    /\ pc = "run"
    /\ Pass(Machine(RenderEditor(ed), fs), NoKey)

\* A pass in insert mode.
InsertModeKey ==
    /\ pc = "run"
    /\ ~ed.commandMode
    /\ \E k \in InsertKeys :
           Pass(ProcessKeypress(Machine(RenderEditor(ed), fs), k, TRUE), k)

\* A pass in command mode.
CommandModeKey ==
    /\ pc = "run"
    /\ ed.commandMode
    /\ \E k \in CommandKeys, dirOk \in BOOLEAN :
           Pass(ProcessKeypress(Machine(RenderEditor(ed), fs), k, dirOk), k)

Next == ReadNothing \/ InsertModeKey \/ CommandModeKey

Spec == Init /\ [][Next]_vars

\* ------------------------------------------- a Buffer used on its own

\* The files a lone Buffer is opened from.
BufferFiles == {NoFile, File(""), File("b\n"), File("b\nb")}

\* The chars given to insertChar.
BufferChars == {"a"}

\* The rows and columns given to the operations: every one in range, and some
\* on either side.
ArgRows == -1 .. Len(buf.lines) + 1

ArgCols(row) == -1 .. Len(BufferGetLine(buf, row)) + 2

BInit ==
    /\ fs \in [Paths -> BufferFiles]
    /\ buf \in {NewBuffer, BufferOpen("f", fs)}
    /\ op = [name |-> "Buffer", inRange |-> TRUE]
    /\ outcome = "ok"
    /\ ret = ""
    /\ ed = NewEditor
    /\ pc = "run"
    /\ key = NoKey
    /\ trace = << >>
    /\ cmdLine = ""
    /\ vocabulary = {}
    /\ plugins = {}
    /\ fresh = NewBuffer
    /\ tty = Tty(SaneTermios, ZeroTermios, SaneTermios, 0)
    /\ line = ""

\* The process is still there to call the buffer.
Alive == outcome # "crash"

\* row names a line of buf, and col a place in it (its end included).
RowInRange(row) == 0 <= row /\ row < Len(buf.lines)

ColInRange(row, col) == RowInRange(row) /\ 0 <= col /\ col <= Len(buf.lines[row + 1])

\* The state after a call that ended as r says.
Called(name, inRange, r) ==
    /\ buf' = r.buf
    /\ outcome' = r.how
    /\ op' = [name |-> name, inRange |-> inRange]
    /\ ret' = ""
    /\ UNCHANGED <<fs, edvars, compvars>>

BInsertChar ==
    /\ Alive
    /\ CharCount(buf.lines) < MaxChars
    /\ \E row \in ArgRows, ch \in BufferChars : \E col \in ArgCols(row) :
           Called("insertChar", ColInRange(row, col), BufferInsertChar(buf, row, col, ch))

BDeleteChar ==
    /\ Alive
    /\ \E row \in ArgRows : \E col \in ArgCols(row) :
           Called("deleteChar", ColInRange(row, col), BufferDeleteChar(buf, row, col))

BInsertLine ==
    /\ Alive
    /\ Len(buf.lines) < MaxLines
    /\ \E row \in ArgRows :
           LET r == BufferInsertLine(buf, row)
           IN  \E after \in (IF r.how = "undefined" THEN InsertLineUndefined(buf) ELSE {r}) :
                   Called("insertLine", RowInRange(row), after)

BDeleteLine ==
    /\ Alive
    /\ \E row \in ArgRows :
           LET r == BufferDeleteLine(buf, row)
           IN  \E after \in (IF r.how = "undefined" THEN DeleteLineUndefined(buf) ELSE {r}) :
                   Called("deleteLine", RowInRange(row), after)

BGetLine ==
    /\ Alive
    /\ \E row \in ArgRows :
           /\ ret' = BufferGetLine(buf, row)
           /\ op' = [name |-> "getLine", inRange |-> RowInRange(row)]
           /\ outcome' = "ok"
           /\ UNCHANGED <<buf, fs, edvars, compvars>>

BLoad ==
    /\ Alive
    /\ Called("load", TRUE, Result(BufferLoad(buf, fs), "ok"))

BNext == BInsertChar \/ BDeleteChar \/ BInsertLine \/ BDeleteLine \/ BGetLine \/ BLoad

BufSpec == BInit /\ [][BNext]_vars

\* --------------------------------------- a PluginManager used on its own

\* The state after PluginManager's operation name called the hooks r says.
PluginCalled(name, hook, r) ==
    /\ op' = [name |-> name, inRange |-> TRUE]
    /\ trace' = [i \in 1..Len(r.called) |-> Call(hook, NoKey, r.called[i])]
    /\ outcome' = r.how

PInit ==
    /\ plugins = {}
    /\ op = [name |-> "PluginManager", inRange |-> TRUE]
    /\ outcome = "ok"
    /\ trace = << >>
    /\ ed = NewEditor
    /\ fs \in [Paths -> {NoFile}]
    /\ pc = "run"
    /\ key = NoKey
    /\ cmdLine = ""
    /\ vocabulary = {}
    /\ buf = NewBuffer
    /\ ret = ""
    /\ fresh = NewBuffer
    /\ tty = Tty(SaneTermios, ZeroTermios, SaneTermios, 0)
    /\ line = ""

\* loadPlugin registers the plugin, then calls its onLoad.
PLoadPlugin ==
    \E i \in 1..MaxPlugins, throws \in SUBSET Hooks :
        /\ plugins' = LoadPlugin(plugins, Plugin(PluginNames[i], throws))
        /\ PluginCalled("loadPlugin", "onLoad",
                        [called |-> <<PluginNames[i]>>, how |-> "ok"])
        /\ UNCHANGED <<ed, fs, pc, key, cmdLine, vocabulary, buf, ret, fresh, tty, line>>

PUnloadPlugin ==
    \E p \in plugins :
        /\ plugins' = UnloadPlugin(plugins, p.name)
        /\ PluginCalled("unloadPlugin", "", [called |-> << >>, how |-> "ok"])
        /\ UNCHANGED <<ed, fs, pc, key, cmdLine, vocabulary, buf, ret, fresh, tty, line>>

PNotifyKeyPress ==
    /\ PluginCalled("notifyKeyPress", "onKeyPress", PluginsNotifyKeyPress(plugins))
    /\ UNCHANGED <<plugins, ed, fs, pc, key, cmdLine, vocabulary, buf, ret, fresh,
                 tty, line>>

PNotifyBufferChange ==
    /\ PluginCalled("notifyBufferChange", "onBufferChange",
                    PluginsNotifyBufferChange(plugins))
    /\ UNCHANGED <<plugins, ed, fs, pc, key, cmdLine, vocabulary, buf, ret, fresh,
                 tty, line>>

PNext == PLoadPlugin \/ PUnloadPlugin \/ PNotifyKeyPress \/ PNotifyBufferChange

PluginSpec == PInit /\ [][PNext]_vars

\* ------------------------------ a Buffer's operations, two in a row

\* The chars of the lines of the buffers below.
LineChars == {"a", "\n"}

\* The strings of at most n of them.
RECURSIVE Texts(_)
Texts(n) ==
    IF n = 0 THEN {""}
    ELSE Texts(n - 1) \cup {t \o c : t \in Texts(n - 1), c \in LineChars}

\* The buffers the operations are called on: every path, flag and lines
\* within the bounds.
SomeBuffers ==
    {[lines |-> l, filepath |-> p, modified |-> m] :
         l \in {t \in UNION {[1..n -> Texts(MaxChars)] : n \in 1..MaxLines} :
                    CharCount(t) <= MaxChars},
         p \in Paths \cup {""}, m \in BOOLEAN}

\* The chars given to insertChar.
InsertedChars == {"a", "b"}

RInit ==
    /\ buf \in SomeBuffers
    /\ fs \in [Paths -> {NoFile, File("b")}]
    /\ fresh = NewBuffer
    /\ op = [name |-> "Buffer", inRange |-> TRUE]
    /\ outcome = "ok"
    /\ ret = ""
    /\ ed = NewEditor
    /\ pc = "run"
    /\ key = NoKey
    /\ trace = << >>
    /\ cmdLine = ""
    /\ vocabulary = {}
    /\ plugins = {}
    /\ tty = Tty(SaneTermios, ZeroTermios, SaneTermios, 0)
    /\ line = ""

\* buf.save(), then Buffer fresh(buf's path).
SaveThenOpen ==
    /\ Alive
    /\ buf' = BufferSave(buf)
    /\ fs' = FilesAfterSave(buf, fs)
    /\ fresh' = BufferOpen(buf.filepath, fs')
    /\ op' = [name |-> "save;Buffer", inRange |-> TRUE]
    /\ outcome' = "ok"
    /\ UNCHANGED <<ret, edvars, plugins, tty, line>>

\* buf.insertChar(row, col, ch), then buf.deleteChar(row, col + 1) when the
\* first returned.
InsertThenDelete ==
    /\ Alive
    /\ \E row \in ArgRows, ch \in InsertedChars : \E col \in ArgCols(row) :
           LET r1 == BufferInsertChar(buf, row, col, ch)
               r2 == IF r1.how = "ok" THEN BufferDeleteChar(r1.buf, row, col + 1)
                     ELSE r1
           IN  /\ buf' = r2.buf
               /\ outcome' = r2.how
               /\ op' = [name |-> "insertChar;deleteChar",
                         inRange |-> ColInRange(row, col)]
    /\ UNCHANGED <<fs, fresh, ret, edvars, plugins, tty, line>>

RNext == SaveThenOpen \/ InsertThenDelete

RoundSpec == RInit /\ [][RNext]_vars

\* ---------------------------------- Editors constructed and destroyed

\* The most Editors alive at once.
MaxEditors == 2

\* The configurations the terminal can have when the program starts.
UserTermios ==
    {Termios(lflag, {"IXON", "ICRNL", "BRKINT"}, oflag, {"CS8"}, 1, 0) :
         lflag \in SUBSET LFlags, oflag \in SUBSET {"OPOST"}}

TInit ==
    /\ \E t \in UserTermios : tty = Tty(t, ZeroTermios, t, 0)
    /\ op = [name |-> "main", inRange |-> TRUE]
    /\ outcome = "ok"
    /\ ret = ""
    /\ buf = NewBuffer
    /\ fresh = NewBuffer
    /\ fs \in [Paths -> {NoFile}]
    /\ ed = NewEditor
    /\ pc = "run"
    /\ key = NoKey
    /\ trace = << >>
    /\ cmdLine = ""
    /\ vocabulary = {}
    /\ plugins = {}
    /\ line = ""

\* Editor::Editor, its first statement.
ConstructEditor ==
    /\ tty.editors < MaxEditors
    /\ tty' = [EnterRawMode(tty) EXCEPT !.editors = @ + 1]
    /\ op' = [name |-> "Editor", inRange |-> TRUE]
    /\ UNCHANGED <<outcome, ret, buf, fresh, fs, edvars, plugins, line>>

\* Editor::~Editor
DestroyEditor ==
    /\ tty.editors > 0
    /\ tty' = [ExitRawMode(tty) EXCEPT !.editors = @ - 1]
    /\ op' = [name |-> "~Editor", inRange |-> TRUE]
    /\ UNCHANGED <<outcome, ret, buf, fresh, fs, edvars, plugins, line>>

TNext == ConstructEditor \/ DestroyEditor

TermSpec == TInit /\ [][TNext]_vars

\* -------------------------------------- lines given to the highlighter

\* The most characters of a line.
MaxLineLen == 7

\* What a line is made of.
Tokens == {"if", "\"", " ", "//", "x"}

HInit ==
    /\ line = ""
    /\ ret = ""
    /\ op = [name |-> "SyntaxHighlighter", inRange |-> TRUE]
    /\ outcome = "ok"
    /\ buf = NewBuffer
    /\ fresh = NewBuffer
    /\ fs \in [Paths -> {NoFile}]
    /\ ed = NewEditor
    /\ pc = "run"
    /\ key = NoKey
    /\ trace = << >>
    /\ cmdLine = ""
    /\ vocabulary = {}
    /\ plugins = {}
    /\ tty = Tty(SaneTermios, ZeroTermios, SaneTermios, 0)

\* highlighter.highlight(line) for a line one token longer than the last.
HighlightLine ==
    \E t \in Tokens :
        /\ Len(line) + Len(t) <= MaxLineLen
        /\ line' = line \o t
        /\ ret' = Highlight(EditorRules, line')
        /\ op' = [name |-> "highlight", inRange |-> TRUE]
        /\ UNCHANGED <<outcome, buf, fresh, fs, edvars, plugins, tty>>

HNext == HighlightLine

HighlightSpec == HInit /\ [][HNext]_vars

\* ---------------------------------------- a FileExplorer used on its own

\* The most entries of a directory.
MaxEntries == 3

\* The names of a directory's entries.
EntryNames == {SubSeq("abcdefgh", i, i) : i \in 1..MaxEntries}

\* What scanDirectory can list: some of them, in the order the iterator
\* yields them; nothing for a directory that cannot be read.
Listings ==
    {l \in UNION {[1..n -> EntryNames] : n \in 0..MaxEntries} :
         \A i, j \in 1..Len(l) : i # j => l[i] # l[j]}

\* The deltas given to moveSelection.
Deltas == -2..2

XInit ==
    /\ ed = NewEditor
    /\ op = [name |-> "FileExplorer", inRange |-> TRUE]
    /\ outcome = "ok"
    /\ ret = ""
    /\ buf = NewBuffer
    /\ fresh = NewBuffer
    /\ fs \in [Paths -> {NoFile}]
    /\ pc = "run"
    /\ key = NoKey
    /\ trace = << >>
    /\ cmdLine = ""
    /\ vocabulary = {}
    /\ plugins = {}
    /\ tty = Tty(SaneTermios, ZeroTermios, SaneTermios, 0)
    /\ line = ""

\* The state after the explorer's operation name left the explorer x and
\* returned r.
ExplorerCalled(name, x, r) ==
    /\ ed' = [ed EXCEPT !.fileExplorer = x]
    /\ op' = [name |-> name, inRange |-> TRUE]
    /\ ret' = r
    /\ UNCHANGED <<outcome, buf, fresh, fs, pc, key, trace, cmdLine, vocabulary,
                   plugins, tty, line>>

XScanDirectory ==
    \E l \in Listings :
        ExplorerCalled("scanDirectory", ExplorerScan(ed.fileExplorer, l), "")

XMoveSelection ==
    \E delta \in Deltas :
        ExplorerCalled("moveSelection", MoveSelection(ed.fileExplorer, delta), "")

XGetSelected ==
    ExplorerCalled("getSelected", ed.fileExplorer, GetSelected(ed.fileExplorer))

XNext == XScanDirectory \/ XMoveSelection \/ XGetSelected

ExplorerSpec == XInit /\ [][XNext]_vars

\* ---------------------------------------------------------- claims

\* The pass being taken handles the byte k, read in insert mode.
InsertPass(k) == pc = "run" /\ ~ed.commandMode /\ key' = k

\* The pass being taken handles the byte k, read in command mode.
CommandPass(k) == pc = "run" /\ ed.commandMode /\ key' = k

\* The pass being taken executes the command cmd.
Executes(cmd) == CommandPass(CR) /\ ed.commandBuffer = cmd

CursorSame == ed'.cursorRow = ed.cursorRow /\ ed'.cursorCol = ed.cursorCol

\* C1: after any keys and commands the cursor row names a line of the current
\* buffer and the cursor column lies in that line, its end included; no
\* buffer operation of the editor throws.
C1_CursorInBounds ==
    /\ pc # "failed"
    /\ 0 <= ed.cursorRow
    /\ ed.cursorRow < Len(GetCurrentBuffer(ed).lines)
    /\ 0 <= ed.cursorCol
    /\ ed.cursorCol <= Len(GetCurrentBuffer(ed).lines[ed.cursorRow + 1])

\* C1: a file was opened as the second buffer, Enter was pressed in it and a
\* character typed on the new line.
C1_Witness ==
    /\ ed.currentBuffer = 1
    /\ ed.cursorRow = 1
    /\ ed.cursorCol = 1
    /\ key = 120

\* C2: Enter in insert mode at column c of line r leaves the first c
\* characters in line r, puts the rest in a new line r + 1, keeps the other
\* lines, and moves the cursor to (r + 1, 0).
C2_EnterSplitsLine ==
    [][InsertPass(CR) =>
         LET r == ed.cursorRow
             c == ed.cursorCol
             old == GetCurrentBuffer(ed).lines
         IN  /\ GetCurrentBuffer(ed').lines =
                    SubSeq(old, 1, r)
                    \o <<SubSeq(old[r + 1], 1, c), Substr(old[r + 1], c)>>
                    \o SubSeq(old, r + 2, Len(old))
             /\ ed'.cursorRow = r + 1
             /\ ed'.cursorCol = 0]_vars

\* C3: a buffer has at least one line after any calls of insertLine,
\* deleteLine and load, and deleteLine leaves a one-line buffer as it is.
C3_AtLeastOneLine ==
    /\ [](Len(buf.lines) >= 1)
    /\ [][(op'.name = "deleteLine" /\ Len(buf.lines) = 1) => buf' = buf]_vars

\* C3: deleteLine was called on a buffer of one line, which it still has;
\* the buffer was never changed (a line deleted sets the flag).
C3_Witness ==
    /\ op.name = "deleteLine"
    /\ Len(buf.lines) = 1
    /\ ~buf.modified
    /\ outcome = "ok"

\* C4: a buffer operation called with a row or a column out of range returns
\* without changing the lines or the modified flag (getLine returns ""), and
\* neither throws nor reads or writes out of bounds.
C4_OutOfRangeIsNoOp ==
    [][~op'.inRange => (buf' = buf /\ outcome' = "ok" /\ ret' = "")]_vars

\* C5: `q` on an unmodified current buffer sets running to false; on a
\* modified one it leaves running true, sets the status message to the
\* unsaved-changes text, and leaves the buffers and the cursor as they were.
C5_QuitCommand ==
    [][Executes("q") =>
         IF GetCurrentBuffer(ed).modified
         THEN /\ ed'.running
              /\ ed'.statusMessage = "Unsaved changes! Use :q! to force quit"
              /\ ed'.buffers = ed.buffers
              /\ ed'.currentBuffer = ed.currentBuffer
              /\ CursorSame
         ELSE ~ed'.running]_vars

\* C5: `q` was refused on a modified buffer.
C5_Witness ==
    /\ key = CR
    /\ trace = <<Call("executeCommand", NoKey, "q")>>
    /\ GetCurrentBuffer(ed).modified
    /\ ed.running
    /\ ed.statusMessage = "Unsaved changes! Use :q! to force quit"

C7_OpenAppendsBuffer ==
    [][(CommandPass(CR) /\ SubstrN(ed.commandBuffer, 0, 2) = "e ") =>
         LET path == Substr(ed.commandBuffer, 2)
             n == Len(ed.buffers)
         IN  /\ Len(ed'.buffers) = n + 1
             /\ SubSeq(ed'.buffers, 1, n) = ed.buffers
             /\ ed'.currentBuffer = n
             /\ ed'.cursorRow = 0
             /\ ed'.cursorCol = 0
             /\ ed'.buffers[n + 1].filepath = path
             /\ ~ed'.buffers[n + 1].modified
             /\ ~(path \in Paths /\ fs[path].exists)
                    => ed'.buffers[n + 1].lines = <<"">>]_vars

\* C7: `e f` was executed where f names no file, after the cursor had left
\* (0, 0) in the first buffer.
C7_Witness ==
    /\ key = CR
    /\ trace = <<Call("executeCommand", NoKey, "e f")>>
    /\ ~fs["f"].exists
    /\ Len(ed.buffers[1].lines) = 2
    /\ ed.currentBuffer = 1
    /\ GetCurrentBuffer(ed) = [lines |-> <<"">>, filepath |-> "f", modified |-> FALSE]

\* The commands Editor::executeCommand knows.
KnownCommand(cmd) ==
    cmd \in {"q", "w", "wq", "explorer"} \/ SubstrN(cmd, 0, 2) = "e "

\* C8: a command that is none of q, w, wq, explorer, `e ...` sets the status
\* message to "Unknown command: <cmd>" and changes nothing else of the editor
\* (but the mode and the command buffer, which every command resets) nor any
\* file.
C8_UnknownCommandOnlyStatus ==
    [][(CommandPass(CR) /\ ~KnownCommand(ed.commandBuffer)) =>
         /\ ed' = [ed EXCEPT !.statusMessage = "Unknown command: " \o ed.commandBuffer,
                             !.commandMode = FALSE,
                             !.commandBuffer = ""]
         /\ fs' = fs
         /\ pc' = "run"]_vars

\* C8: the unknown command `q!` was executed on a modified buffer.
C8_Witness ==
    /\ key = CR
    /\ trace = <<Call("executeCommand", NoKey, "q!")>>
    /\ ed.statusMessage = "Unknown command: q!"
    /\ GetCurrentBuffer(ed).modified

\* C9: in insert mode the command buffer is empty; `:` enters command mode
\* with it empty; in command mode CR executes the typed text, once, and ESC
\* executes nothing, and both return to insert mode with the buffer cleared.
C9_TwoStateMachine ==
    /\ [](~ed.commandMode => ed.commandBuffer = "")
    /\ [][/\ InsertPass(COLON) => (ed'.commandMode /\ ed'.commandBuffer = "")
          /\ CommandPass(CR) =>
                 /\ ~ed'.commandMode
                 /\ ed'.commandBuffer = ""
                 /\ trace' = <<Call("executeCommand", NoKey, ed.commandBuffer)>>
          /\ CommandPass(ESC) =>
                 /\ ~ed'.commandMode
                 /\ ed'.commandBuffer = ""
                 /\ trace' = << >>]_vars

\* C9: ESC was pressed in command mode after `wq` had been typed.
C9_Witness ==
    /\ key = ESC
    /\ cmdLine = ":wq"
    /\ ~ed.commandMode
    /\ ed.running

\* The calls of `name` among calls.
CallsOf(calls, name) == {i \in 1..Len(calls) : calls[i].call = name}

\* C10: a key read in insert mode goes to notifyKeyPress once, before
\* anything else is done with it, and notifyBufferChange is called, once,
\* exactly when the key changed the lines of the current buffer; a key read
\* in command mode goes to no notifyKeyPress.
C10_KeyNotifications ==
    [][/\ (pc = "run" /\ ~ed.commandMode /\ key' # NoKey) =>
              /\ CallsOf(trace', "notifyKeyPress") = {1}
              /\ trace'[1].key = key'
              /\ Cardinality(CallsOf(trace', "notifyBufferChange")) =
                     IF GetCurrentBuffer(ed').lines # GetCurrentBuffer(ed).lines
                     THEN 1 ELSE 0
       /\ (pc = "run" /\ ed.commandMode) =>
              CallsOf(trace', "notifyKeyPress") = {}]_vars

\* C10: a character was typed: the key was notified, then the buffer changed,
\* then the change was notified.
C10_Witness ==
    /\ key = 120
    /\ Len(trace) = 3
    /\ trace[1] = Call("notifyKeyPress", 120, "")
    /\ trace[2].call = "Buffer::insertChar"
    /\ trace[3].call = "notifyBufferChange"

\* C11: in notifyKeyPress and notifyBufferChange every registered plugin has
\* its hook called, whether or not another plugin's hook failed.
C11_EveryPluginNotified ==
    [][op'.name \in {"notifyKeyPress", "notifyBufferChange"} =>
           {trace'[i].text : i \in 1..Len(trace')} = {p.name : p \in plugins'}]_vars

\* C12, as stated: a status message set by a command is displayed in exactly
\* one render pass: a render pass follows its setting, that pass paints it and
\* clears it, and no later pass paints it unless a command sets a new one.
C12_StatusShownExactlyOnce ==
    [][/\ ed'.statusMessage # "" => CommandPass(CR) /\ pc' = "run"
       /\ ed.statusMessage # "" => ~ed.commandMode /\ cmdLine' = ed.statusMessage]_vars

\* C12, amended: a status message is displayed in at most one render pass.  It
\* is there only right after the command that set it; the next render pass, if
\* the loop goes on, paints it and clears it.
C12_StatusShownOnce ==
    [][/\ ed'.statusMessage # "" => CommandPass(CR)
       /\ ed.statusMessage # "" => ~ed.commandMode /\ cmdLine' = ed.statusMessage]_vars

\* A pass has painted the message of `w` and cleared it.
C12_Witness == cmdLine = "File saved" /\ ed.statusMessage = "" /\ pc = "run"

\* a and b are the same lines, up to one empty line at the end of either.
SameLines(a, b) == a = b \/ a \o <<"">> = b \/ a = b \o <<"">>

\* C13: save() followed by constructing a fresh Buffer from the same path
\* yields the same lines in order (up to one trailing empty line), the fresh
\* buffer is unmodified, and save() has cleared the saved buffer's flag.
C13_SaveLoadRoundTrip ==
    op.name = "save;Buffer" =>
        /\ SameLines(buf.lines, fresh.lines)
        /\ ~fresh.modified
        /\ ~buf.modified

\* C14: for a valid row and a column within its line, insertChar(r, col, c)
\* followed by deleteChar(r, col + 1) leaves the lines as they were.
C14_InsertDeleteRestores ==
    [][op'.name = "insertChar;deleteChar" /\ op'.inRange =>
           outcome' = "ok" /\ buf'.lines = buf.lines]_vars

\* The pair was called on a line of a buffer that has other, non-empty lines.
C14_Witness ==
    /\ op.name = "insertChar;deleteChar"
    /\ op.inRange
    /\ buf.modified
    /\ Len(buf.lines) > 1
    /\ CharCount(buf.lines) > 0

\* C15: after exitRawMode() the terminal has the configuration it had before
\* raw mode was first entered, whatever Editors were constructed and destroyed
\* before; stated here of the destruction that leaves no Editor, after which
\* the terminal is no longer in raw mode.
C15_ExitRestoresTerminal ==
    [][op'.name = "~Editor" /\ tty'.editors = 0 => tty'.termios = tty.before]_vars

\* C16: highlight of the line `if "if"` under a keyword rule for `if` followed
\* by the quoted-string rule does not color the `if` inside the quotes on its
\* own: the quoted text carries the quote rule's color and nothing else.
C16_QuotedKeywordNotColored ==
    op.name = "highlight" /\ line = "if \"if\"" =>
        ret = Color("34") \o "if" \o ResetColor \o " "
              \o Color("32") \o "\"if\"" \o ResetColor

\* C17: after any scanDirectory and moveSelection calls, the selection index
\* lies in [0, count - 1] after each moveSelection, count being the number of
\* listed entries, and getSelected() returns an entry of the listing or the
\* empty string.
C17_SelectionInListing ==
    /\ op.name = "moveSelection" =>
           /\ 0 <= ed.fileExplorer.selectedIndex
           /\ ed.fileExplorer.selectedIndex <= Len(ed.fileExplorer.files) - 1
    /\ op.name = "getSelected" =>
           \/ ret = ""
           \/ \E i \in 1..Len(ed.fileExplorer.files) : ret = ed.fileExplorer.files[i]

\* C18: whenever running is false the current buffer is unmodified, and what
\* stopped the editor was `q` or `wq`: no other key or command clears running.
C18_StoppedMeansUnmodified ==
    ~ed.running =>
        /\ ~GetCurrentBuffer(ed).modified
        /\ key = CR
        /\ \/ trace = <<Call("executeCommand", NoKey, "q")>>
           \/ trace = <<Call("executeCommand", NoKey, "wq")>>

\* `q` stopped the editor on an untitled buffer that was edited and saved.
C18_Witness ==
    /\ ~ed.running
    /\ trace = <<Call("executeCommand", NoKey, "q")>>
    /\ GetCurrentBuffer(ed).filepath = ""
    /\ CharCount(GetCurrentBuffer(ed).lines) > 0

\* C19: in command mode a key other than CR changes only the command buffer
\* and the mode: the buffers, the current buffer, the cursor, the status
\* message, the running flag and the files stay; backspace on an empty command
\* buffer changes nothing.
C19_CommandKeysFrame ==
    [][(pc = "run" /\ ed.commandMode /\ key' \notin {CR, NoKey}) =>
           /\ ed' = [ed EXCEPT !.commandBuffer = ed'.commandBuffer,
                               !.commandMode = ed'.commandMode]
           /\ fs' = fs
           /\ pc' = "run"
           /\ (key' = DEL /\ ed.commandBuffer = "") => ed' = ed]_vars

\* Backspace was pressed on the empty command buffer of an editor whose
\* buffer had been edited.
C19_Witness ==
    /\ key = DEL
    /\ cmdLine = ":"
    /\ ed.commandMode
    /\ GetCurrentBuffer(ed).modified

\* C20: the current-buffer index names a buffer, no buffer is ever removed,
\* and a key or a command changes at most the current buffer: every other
\* buffer stays, and `e <path>` leaves also the buffer that was current.
C20_OnlyCurrentBufferChanges ==
    /\ [](0 <= ed.currentBuffer /\ ed.currentBuffer < Len(ed.buffers))
    /\ [][/\ Len(ed'.buffers) >= Len(ed.buffers)
          /\ \A i \in 1..Len(ed.buffers) :
                 i # ed.currentBuffer + 1 => ed'.buffers[i] = ed.buffers[i]
          /\ (CommandPass(CR) /\ SubstrN(ed.commandBuffer, 0, 2) = "e ") =>
                 ed'.buffers[ed.currentBuffer + 1] = GetCurrentBuffer(ed)
          /\ ed'.currentBuffer # ed.currentBuffer =>
                 ed'.buffers[ed.currentBuffer + 1] = GetCurrentBuffer(ed)]_vars

\* The first buffer was edited, a file opened, and the new buffer edited.
C20_Witness ==
    /\ Len(ed.buffers) = 2
    /\ ed.currentBuffer = 1
    /\ ed.buffers[1].modified
    /\ ed.buffers[2].modified

====
